---- MODULE Spec2Model ----
(***************************************************************************)
(* The lexer of pseudo-compiler (src/lexer/mod.rs): an iterator over the   *)
(* characters of a text that yields one Token per call of next().          *)
(*                                                                         *)
(* A character is modelled as a string naming it; a text is a sequence of  *)
(* characters.  The regex crate reports a match by BYTE offsets into the   *)
(* UTF-8 text, so each character carries its UTF-8 length.                 *)
(***************************************************************************)
EXTENDS Integers, Sequences, FiniteSets, TLC

VARIABLES
    input,       \* the text given to from_text (never changes)
    raw_data,    \* Lexer.raw_data: the characters the iterator has not yielded yet
    line_count,  \* Lexer.line_count
    out,         \* the values returned by the calls of next() so far, in order
    aborted      \* TRUE once a call of next() has panicked

vars == <<input, raw_data, line_count, out, aborted>>

(***************************************************************************)
(* Characters                                                              *)
(***************************************************************************)
LF == "\n"
CR == "\r"
DQ == "\""
EAcute == "U+00E9"       \* a two-byte letter that is not ASCII
ArabicThree == "U+0663"  \* ARABIC-INDIC DIGIT THREE: class Nd, two bytes

DigitChars == <<"0", "1", "2", "3", "4", "5", "6", "7", "8", "9">>

AsciiDigit == {DigitChars[i] : i \in 1..10}

Lower == {"a", "b", "c", "d", "e", "f", "g", "h", "i", "j", "k", "l", "m",
          "n", "o", "p", "q", "r", "s", "t", "u", "v", "w", "x", "y", "z"}

Upper == {"A", "B", "C", "D", "E", "F", "G", "H", "I", "J", "K", "L", "M",
          "N", "O", "P", "Q", "R", "S", "T", "U", "V", "W", "X", "Y", "Z"}

\* the number of bytes of c in UTF-8 (String::push, Match::end)
Utf8Len(c) == IF c \in {EAcute, ArabicThree} THEN 2 ELSE 1

\* \d of the regex crate is Unicode-aware: any character of class Nd
IsDigit(c) == c \in AsciiDigit \cup {ArabicThree}

\* [_a-zA-Z]
IsIdentStart(c) == c = "_" \/ c \in Lower \/ c \in Upper

\* [_a-zA-Z0-9]
IsIdentPart(c) == IsIdentStart(c) \/ c \in AsciiDigit

(***************************************************************************)
(* The six patterns.  Each operator gives the number of CHARACTERS of the  *)
(* leftmost match anchored at the start of text, 0 when there is none      *)
(* (every pattern needs at least one character).                           *)
(***************************************************************************)

\* the length of the longest prefix of text that holds no position of stop
\* (stop: the positions of the characters a repetition does not accept)
RunLen(text, stop) ==
    IF stop = {} THEN Len(text)
    ELSE (CHOOSE i \in stop : \A j \in stop : i <= j) - 1

\* ^[\r\n]
MatchEndLine(text) ==
    IF Len(text) >= 1 /\ text[1] \in {CR, LF} THEN 1 ELSE 0

\* ^\w+ in the place of ^\d+: the digits absorb the letters after them
MatchIntegerAlnum(text) ==
    IF Len(text) >= 1 /\ IsDigit(text[1])
    THEN RunLen(text, {i \in DOMAIN text :
                          ~(IsDigit(text[i]) \/ IsIdentPart(text[i]))})
    ELSE 0

\* ^\d+
MatchInteger(text) == RunLen(text, {i \in DOMAIN text : ~IsDigit(text[i])})

\* ^"[^"]*"   ([^"] matches every other character, line breaks included)
MatchStr(text) ==
    IF Len(text) >= 1 /\ text[1] = DQ
    THEN LET body == RunLen(Tail(text), {i \in DOMAIN Tail(text) : Tail(text)[i] = DQ})
         IN  IF body + 2 <= Len(text) THEN body + 2 ELSE 0
    ELSE 0

\* ^//.*   (. matches every character except \n, so it matches \r)
MatchComment(text) ==
    IF Len(text) >= 2 /\ text[1] = "/" /\ text[2] = "/"
    THEN LET rest == SubSeq(text, 3, Len(text))
         IN  2 + RunLen(rest, {i \in DOMAIN rest : rest[i] = LF})
    ELSE 0

\* ^(<-|=)
MatchSymbol(text) ==
    IF Len(text) >= 2 /\ text[1] = "<" /\ text[2] = "-" THEN 2
    ELSE IF Len(text) >= 1 /\ text[1] = "=" THEN 1
    ELSE 0

\* ^[_a-zA-Z][_a-zA-Z0-9]*
MatchIdentifier(text) ==
    IF Len(text) >= 1 /\ IsIdentStart(text[1])
    THEN LET rest == Tail(text)
         IN  1 + RunLen(rest, {i \in DOMAIN rest : ~IsIdentPart(rest[i])})
    ELSE 0

\* the number of bytes of the first n characters of text
RECURSIVE ByteLen(_, _)
ByteLen(text, n) ==
    IF n = 0 THEN 0 ELSE ByteLen(text, n - 1) + Utf8Len(text[n])

\* Match::end() of a match of n characters at the start of text: a byte offset
MatchEnd(text, n) == ByteLen(text, n)

(***************************************************************************)
(* The iterator raw_data and the values of the token types                 *)
(***************************************************************************)

\* what n calls of raw_data.next() yield (fewer when the iterator runs out)
Take(rd, n) == SubSeq(rd, 1, IF n <= Len(rd) THEN n ELSE Len(rd))

\* raw_data after n calls of raw_data.next()
Drop(rd, n) == SubSeq(rd, (IF n <= Len(rd) THEN n ELSE Len(rd)) + 1, Len(rd))

\* an `if` in the place of the loop: one leading ' ' at most is dropped
SkipSpacesOnce(rd) == IF rd # <<>> /\ Head(rd) = " " THEN Tail(rd) ELSE rd

\* the loop over raw_data.peek(): drops the leading ' ' characters
SkipSpaces(rd) == Drop(rd, RunLen(rd, {i \in DOMAIN rd : rd[i] # " "}))

I32Max == 2147483647

\* the digit a character stands for in radix 10 (char::to_digit), -1 if none
ToDigit(c) ==
    IF c \in AsciiDigit THEN (CHOOSE i \in 1..10 : DigitChars[i] = c) - 1 ELSE -1

\* the overflow test of the multiplication off by one
RECURSIVE ParseI32OffByOne(_, _)
ParseI32OffByOne(s, acc) ==
    IF s = <<>> THEN [ok |-> TRUE, value |-> acc]
    ELSE LET d == ToDigit(Head(s))
         IN  IF d < 0 THEN [ok |-> FALSE, value |-> 0]
             ELSE IF acc >= I32Max \div 10 THEN [ok |-> FALSE, value |-> 0]
             ELSE ParseI32OffByOne(Tail(s), acc * 10 + d)

\* saturating arithmetic in the place of checked arithmetic
RECURSIVE ParseI32Saturating(_, _)
ParseI32Saturating(s, acc) ==
    IF s = <<>> THEN [ok |-> TRUE, value |-> acc]
    ELSE LET d == ToDigit(Head(s))
         IN  IF d < 0 THEN [ok |-> FALSE, value |-> 0]
             ELSE IF acc > I32Max \div 10 THEN [ok |-> TRUE, value |-> I32Max]
             ELSE IF acc * 10 > I32Max - d THEN [ok |-> TRUE, value |-> I32Max]
             ELSE ParseI32Saturating(Tail(s), acc * 10 + d)

\* str::parse::<i32> of a text without a sign: checked_mul(10), then
\* checked_add(digit), character by character
RECURSIVE ParseI32(_, _)
ParseI32(s, acc) ==
    IF s = <<>> THEN [ok |-> TRUE, value |-> acc]
    ELSE LET d == ToDigit(Head(s))
         IN  IF d < 0 THEN [ok |-> FALSE, value |-> 0]
             ELSE IF acc > I32Max \div 10 THEN [ok |-> FALSE, value |-> 0]
             ELSE IF acc * 10 > I32Max - d THEN [ok |-> FALSE, value |-> 0]
             ELSE ParseI32(Tail(s), acc * 10 + d)

\* Result<TokenKind>: Ok(kind) or Err(message)
Kind(ok, tag, text, value) ==
    [ok |-> ok, tag |-> tag, text |-> text, value |-> value]

EndLine == Kind(TRUE, "EndLine", <<>>, 0)
Integer(i) == Kind(TRUE, "Integer", <<>>, i)
Str(s) == Kind(TRUE, "Str", s, 0)
Symbol(s) == Kind(TRUE, "Symbol", s, 0)
Identifier(s) == Kind(TRUE, "Identifier", s, 0)
InvalidInteger(s) == Kind(FALSE, "InvalidInteger", s, 0)
UnexpectedToken(c) == Kind(FALSE, "UnexpectedToken", <<c>>, 0)
NoKind == Kind(FALSE, "", <<>>, 0)

(***************************************************************************)
(* Lexer::next.  The value of a call: ret is "Some", "None" or "Panic";    *)
(* token_kind and line are the fields of the Token when ret is "Some";     *)
(* raw_data and line_count are the fields of the Lexer when the call       *)
(* ends; steps lists, for this call and the calls it makes, the rule that  *)
(* was applied, the number of characters that were left when it was tried, *)
(* the characters of its match and the characters it consumed.             *)
(***************************************************************************)
Step(rule, text, span, took) ==
    [rule |-> rule, left |-> Len(text), span |-> span, took |-> took]

Return(ret, token_kind, rd, lc, steps) ==
    [ret |-> ret, token_kind |-> token_kind, line |-> lc,
     raw_data |-> rd, line_count |-> lc, steps |-> steps]

\* &s[1..s.len() - 1] of the consumed characters s: the bounds are byte
\* offsets, and a bound inside a character panics
StripQuotes(s) ==
    IF Utf8Len(s[1]) # 1 \/ Utf8Len(s[Len(s)]) # 1
    THEN [ok |-> FALSE, s |-> <<>>]
    ELSE [ok |-> TRUE, s |-> SubSeq(s, 2, Len(s) - 1)]

RECURSIVE next(_, _)

\* the End Line branch without `self.line_count += 1`
EndLineRuleNoCount(text, lc) ==
    LET m == MatchEndLine(text)
        n == MatchEnd(text, m)
    IN  Return("Some", EndLine, Drop(text, n), lc,
               <<Step("EndLine", text, m, Len(Take(text, n)))>>)

\* the Token made before `self.line_count += 1`: it carries the old count
EndLineRuleLineBefore(text, lc) ==
    LET m == MatchEndLine(text)
        n == MatchEnd(text, m)
    IN  [ret |-> "Some", token_kind |-> EndLine, line |-> lc,
         raw_data |-> Drop(text, n), line_count |-> lc + 1,
         steps |-> <<Step("EndLine", text, m, Len(Take(text, n)))>>]

\* End Line: text is what is left after the spaces, lc is line_count
EndLineRule(text, lc) ==
    LET m == MatchEndLine(text)
        n == MatchEnd(text, m)
    IN  Return("Some", EndLine, Drop(text, n), lc + 1,
               <<Step("EndLine", text, m, Len(Take(text, n)))>>)

\* Integer Literal
IntegerRule(text, lc) ==
    LET m == MatchInteger(text)
        n == MatchEnd(text, m)
        t == Take(text, m)
        value == ParseI32(t, 0)
    IN  Return("Some",
               IF value.ok THEN Integer(value.value) ELSE InvalidInteger(t),
               Drop(text, n), lc,
               <<Step("Integer", text, m, Len(Take(text, n)))>>)

\* String Literals: raw_data.next().unwrap() panics once raw_data is empty
StrRule(text, lc) ==
    LET m == MatchStr(text)
        n == MatchEnd(text, m)
        s == Take(text, n)
        st == Step("Str", text, m, Len(s))
    IN  IF n > Len(text) \/ ~StripQuotes(s).ok
        THEN Return("Panic", NoKind, Drop(text, n), lc, <<st>>)
        ELSE Return("Some", Str(StripQuotes(s).s), Drop(text, n), lc, <<st>>)

\* Comments: the call returns what a further call of next() returns
CommentRule(text, lc) ==
    LET m == MatchComment(text)
        n == MatchEnd(text, m)
        st == Step("Comment", text, m, Len(Take(text, n)))
    IN  IF n > Len(text)
        THEN Return("Panic", NoKind, Drop(text, n), lc, <<st>>)
        ELSE LET r == next(Drop(text, n), lc)
             IN  Return(r.ret, r.token_kind, r.raw_data, r.line_count,
                        <<st>> \o r.steps)

\* Symbols
SymbolRule(text, lc) ==
    LET m == MatchSymbol(text)
        n == MatchEnd(text, m)
        s == Take(text, n)
        st == Step("Symbol", text, m, Len(s))
    IN  IF n > Len(text)
        THEN Return("Panic", NoKind, Drop(text, n), lc, <<st>>)
        ELSE Return("Some", Symbol(s), Drop(text, n), lc, <<st>>)

\* Identifiers
IdentifierRule(text, lc) ==
    LET m == MatchIdentifier(text)
        n == MatchEnd(text, m)
        s == Take(text, n)
        st == Step("Identifier", text, m, Len(s))
    IN  IF n > Len(text)
        THEN Return("Panic", NoKind, Drop(text, n), lc, <<st>>)
        ELSE Return("Some", Identifier(s), Drop(text, n), lc, <<st>>)

\* raw_data.peek() in the place of raw_data.next(): nothing is consumed
UnexpectedRulePeek(text, lc) ==
    Return("Some", UnexpectedToken(Head(text)), text, lc,
           <<Step("Unexpected", text, 0, 0)>>)

\* no pattern matches: the next character is consumed and named
UnexpectedRule(text, lc) ==
    Return("Some", UnexpectedToken(Head(text)), Tail(text), lc,
           <<Step("Unexpected", text, 0, 1)>>)

next(rd, lc) ==
    LET text == SkipSpaces(rd)
    IN  IF text = <<>> THEN Return("None", NoKind, text, lc, <<>>)
        ELSE IF MatchEndLine(text) > 0 THEN EndLineRule(text, lc)
        ELSE IF MatchInteger(text) > 0 THEN IntegerRule(text, lc)
        ELSE IF MatchStr(text) > 0 THEN StrRule(text, lc)
        ELSE IF MatchComment(text) > 0 THEN CommentRule(text, lc)
        ELSE IF MatchSymbol(text) > 0 THEN SymbolRule(text, lc)
        ELSE IF MatchIdentifier(text) > 0 THEN IdentifierRule(text, lc)
        ELSE UnexpectedRule(text, lc)

(***************************************************************************)
(* The texts the lexer is run on                                           *)
(***************************************************************************)
MaxLen == 3        \* every text of at most MaxLen characters of Alphabet
MaxZeros == 2      \* at most MaxZeros leading zeros before a numeral
MaxEndPulls == 2   \* calls of next() made after it has returned None

Alphabet == {" ", LF, CR, DQ, "/", "<", "-", "=", "1", "a", "@",
             EAcute, ArabicThree}

ShortTexts == UNION {[1..n -> Alphabet] : n \in 0..MaxLen}

\* the decimal digits of n >= 0
RECURSIVE DigitsOf(_)
DigitsOf(n) ==
    IF n < 10 THEN <<DigitChars[n + 1]>>
    ELSE Append(DigitsOf(n \div 10), DigitChars[(n % 10) + 1])

Zeros(k) == [i \in 1..k |-> "0"]

\* numerals around the ends of the range of i32, with leading zeros, then
\* perhaps a further digit (which takes most of them out of the range) and
\* perhaps a letter
Numerals == {0, 7, 42, 2147, 214748364, 214748365, 999999999, I32Max}

IntTexts ==
    {Zeros(k) \o DigitsOf(n) \o digit \o letter :
        k \in 0..MaxZeros, n \in Numerals,
        digit \in {<<>>} \cup {<<DigitChars[i]>> : i \in 1..10},
        letter \in {<<>>, <<"a">>}}

Comment42(eol) ==
    <<"/", "/", " ", "c", "o", "m", "m", "e", "n", "t", eol, "4", "2">>

Scenarios ==
    { <<"1", "2", "a", "b", "c">>,
      <<"x", " ", "<", "-", " ", "5">>,
      <<"@">>,
      Comment42(LF), Comment42(CR),
      <<"/", "/", CR, LF, "1">>,
      <<"/", "/", EAcute, LF, "a">>,
      <<DQ, EAcute, DQ, "a">>,
      <<DQ, LF, DQ, "a">> }

Texts == ShortTexts \cup IntTexts \cup Scenarios

(***************************************************************************)
(* The lexer as a state machine                                            *)
(***************************************************************************)

\* Lexer::from_text(text)
from_text(text) ==
    /\ input = text
    /\ raw_data = text
    /\ line_count = 1
    /\ out = <<>>
    /\ aborted = FALSE

Init == \E text \in Texts : from_text(text)

Ended == Cardinality({i \in 1..Len(out) : out[i].ret = "None"})

\* a lexer that rewinds to the start of the text once it has returned None
PullRestart ==
    /\ ~aborted
    /\ Ended < MaxEndPulls
    /\ LET r == next(raw_data, line_count)
       IN  /\ raw_data' = IF r.ret = "None" THEN input ELSE r.raw_data
           /\ line_count' = r.line_count
           /\ aborted' = (r.ret = "Panic")
           /\ out' = Append(out,
                  [ret |-> r.ret, token_kind |-> r.token_kind, line |-> r.line,
                   steps |-> r.steps, from |-> Len(raw_data),
                   to |-> Len(r.raw_data), line_before |-> line_count,
                   line_after |-> r.line_count])
    /\ UNCHANGED input

\* one call of next() by the consumer of the tokens
Pull ==
    /\ ~aborted
    /\ Ended < MaxEndPulls
    /\ LET r == next(raw_data, line_count)
       IN  /\ raw_data' = r.raw_data
           /\ line_count' = r.line_count
           /\ aborted' = (r.ret = "Panic")
           /\ out' = Append(out,
                  [ret |-> r.ret, token_kind |-> r.token_kind, line |-> r.line,
                   steps |-> r.steps, from |-> Len(raw_data),
                   to |-> Len(r.raw_data), line_before |-> line_count,
                   line_after |-> r.line_count])
    /\ UNCHANGED input

Next == Pull

Spec == Init /\ [][Next]_vars

TypeOK ==
    /\ input \in Texts
    /\ line_count \in 1..(Len(input) + 1)
    /\ aborted \in BOOLEAN
    /\ Len(raw_data) <= Len(input)
    /\ raw_data = SubSeq(input, Len(input) - Len(raw_data) + 1, Len(input))

(***************************************************************************)
(* Properties                                                              *)
(***************************************************************************)
Calls == 1..Len(out)

\* the characters that were left when `left` characters were left
TextAt(left) == SubSeq(input, Len(input) - left + 1, Len(input))

\* the number of characters the cursor has consumed
Consumed == Len(input) - Len(raw_data)

\* the positions of the end-of-line markers of a text
Markers(text) == {i \in 1..Len(text) : text[i] \in {CR, LF}}

Min(S) == CHOOSE x \in S : \A y \in S : x <= y
Max(S) == CHOOSE x \in S : \A y \in S : x >= y

\* the step of call i that decided its result (the steps before it are comments)
LastStep(i) == out[i].steps[Len(out[i].steps)]

Rules == <<"EndLine", "Integer", "Str", "Comment", "Symbol", "Identifier">>

RuleMatches(k, text) ==
    CASE k = 1 -> MatchEndLine(text) > 0
      [] k = 2 -> MatchInteger(text) > 0
      [] k = 3 -> MatchStr(text) > 0
      [] k = 4 -> MatchComment(text) > 0
      [] k = 5 -> MatchSymbol(text) > 0
      [] k = 6 -> MatchIdentifier(text) > 0

\* the first rule, in the fixed order, whose pattern matches at the start of text
FirstRule(text) ==
    LET ok == {k \in 1..6 : RuleMatches(k, text)}
    IN  IF ok = {} THEN "Unexpected" ELSE Rules[Min(ok)]

Text12abc == <<"1", "2", "a", "b", "c">>

\* C1: every step of every pull applies the first rule, in the order EndLine,
\* Integer, Str, Comment, Symbol, Identifier, whose pattern matches at the
\* cursor; the text 12abc yields Literal(Integer(12)), then Identifier("abc").
C1FirstRuleWins ==
    /\ \A i \in Calls : \A j \in 1..Len(out[i].steps) :
          out[i].steps[j].rule = FirstRule(TextAt(out[i].steps[j].left))
    /\ input = Text12abc =>
          /\ Len(out) >= 1 =>
                out[1].ret = "Some" /\ out[1].token_kind = Integer(12)
          /\ Len(out) >= 2 =>
                /\ out[2].ret = "Some"
                /\ out[2].token_kind = Identifier(<<"a", "b", "c">>)
          /\ Len(out) >= 3 => out[3].ret = "None"

C1Witness ==
    /\ input = Text12abc
    /\ Len(out) = 3
    /\ out[1].token_kind = Integer(12)
    /\ out[2].token_kind = Identifier(<<"a", "b", "c">>)

\* C2: line_count never decreases and is one plus the number of end-of-line
\* markers (CR or LF) among the characters the cursor has consumed.
C2LineCountIsMarkersConsumed ==
    /\ \A i \in Calls : out[i].line_before <= out[i].line
    /\ line_count = 1 + Cardinality(Markers(SubSeq(input, 1, Consumed)))

\* C3: when the text holds N end-of-line markers, the first token produced
\* after the last of them has line = N + 1.
C3LineAfterLastMarker ==
    LET N == Cardinality(Markers(input))
        last == IF N = 0 THEN 0 ELSE Max(Markers(input))
        after == {i \in Calls :
                     /\ out[i].ret = "Some"
                     /\ Len(input) - LastStep(i).left + 1 > last}
    IN  after # {} => out[Min(after)].line = N + 1

\* C4: every step in which a rule matches advances the cursor by exactly the
\* number of characters of the matched span.
C4AdvanceIsMatchedSpan ==
    \A i \in Calls : \A j \in 1..Len(out[i].steps) :
        out[i].steps[j].rule # "Unexpected" =>
            out[i].steps[j].took = out[i].steps[j].span

\* C5: a pull whose cursor, after the spaces, is at a comment returns what
\* a pull started just after the comment returns: the same outcome, token
\* kind and line.
C5CommentIsTransparent ==
    \A i \in Calls :
        (out[i].steps # <<>> /\ out[i].steps[1].rule = "Comment") =>
            LET text == TextAt(out[i].steps[1].left)
                r == next(Drop(text, MatchComment(text)), out[i].line_before)
            IN  /\ out[i].ret = r.ret
                /\ out[i].token_kind = r.token_kind
                /\ out[i].line = r.line

\* the outcomes of the pulls so far are the first outcomes of `expected`
\* (a sequence of token kinds), then end-of-input
PullsAre(expected) ==
    \A i \in Calls :
        IF i <= Len(expected)
        THEN out[i].ret = "Some" /\ out[i].token_kind = expected[i]
        ELSE out[i].ret = "None"

\* C6: the text `// comment`, one end-of-line marker (CR or LF), `42` yields
\* EndLine, then Literal(Integer(42)), then end-of-input.
C6CommentThen42 ==
    input \in {Comment42(CR), Comment42(LF)} =>
        PullsAre(<<EndLine, Integer(42)>>)

\* C7: for a text that is `//` followed by characters none of which is an
\* end-of-line marker, the first pull returns end-of-input.
C7CommentOnly ==
    (/\ Len(input) >= 2
     /\ input[1] = "/" /\ input[2] = "/"
     /\ Markers(input) = {}
     /\ Len(out) >= 1) => out[1].ret = "None"

\* C8: when no rule matches at the cursor after the spaces, the pull
\* consumes exactly one character, leaves line_count unchanged and returns
\* an UnexpectedToken failure naming that character.
C8UnexpectedToken ==
    /\ \A i \in Calls :
          (out[i].steps # <<>> /\ FirstRule(TextAt(LastStep(i).left)) = "Unexpected") =>
              /\ out[i].ret = "Some"
              /\ out[i].token_kind = UnexpectedToken(TextAt(LastStep(i).left)[1])
              /\ out[i].to = LastStep(i).left - 1
              /\ out[i].line = out[i].line_before
    /\ input = <<"@">> => PullsAre(<<UnexpectedToken("@")>>)

C8Witness ==
    /\ input = <<" ", "@", "a">>
    /\ Len(out) = 1
    /\ out[1].token_kind = UnexpectedToken("@")
    /\ raw_data = <<"a">>
    /\ line_count = 1

\* a digit run without its leading zeros
RECURSIVE StripZeros(_)
StripZeros(d) ==
    IF d # <<>> /\ Head(d) = "0" THEN StripZeros(Tail(d)) ELSE d

\* d is before e, or is e, in the order of the digit runs of one length
RECURSIVE DigitsLeq(_, _)
DigitsLeq(d, e) ==
    \/ d = <<>>
    \/ ToDigit(Head(d)) < ToDigit(Head(e))
    \/ Head(d) = Head(e) /\ DigitsLeq(Tail(d), Tail(e))

IsDigitRun(d) == d # <<>> /\ \A i \in 1..Len(d) : d[i] \in AsciiDigit

\* the value of the digit run d is in 0 .. 2147483647
InI32Range(d) ==
    LET sig == StripZeros(d)
    IN  \/ Len(sig) < 10
        \/ Len(sig) = 10 /\ DigitsLeq(sig, DigitsOf(I32Max))

RECURSIVE Pow10(_)
Pow10(k) == IF k = 0 THEN 1 ELSE 10 * Pow10(k - 1)

\* the decimal value of a digit run that is in the range
RECURSIVE DecimalValue(_)
DecimalValue(d) ==
    IF d = <<>> THEN 0
    ELSE ToDigit(Head(d)) * Pow10(Len(d) - 1) + DecimalValue(Tail(d))

\* C9: a text that is one run of the digits 0-9 whose value is in
\* 0 .. 2147483647 yields Literal(Integer(v)), v the decimal value of the
\* run, then end-of-input.
C9IntegerInRange ==
    (IsDigitRun(input) /\ InI32Range(input)) =>
        PullsAre(<<Integer(DecimalValue(StripZeros(input)))>>)

C9Witness ==
    /\ input = <<"0", "0">> \o DigitsOf(I32Max)
    /\ Len(out) = 2
    /\ out[1].token_kind = Integer(I32Max)
    /\ out[2].ret = "None"

\* the run of the digits 0-9 at the start of text
DigitRunAt(text) ==
    Take(text, RunLen(text, {i \in DOMAIN text : text[i] \notin AsciiDigit}))

\* C10: when the cursor, after the spaces, is at a run of the digits 0-9
\* whose value exceeds 2147483647, the pull returns an InvalidInteger failure
\* naming the whole run and consumes the whole run; no Integer token is made.
C10IntegerOverflow ==
    \A i \in Calls :
        out[i].steps # <<>> =>
            LET text == TextAt(LastStep(i).left)
                run == DigitRunAt(text)
            IN  (/\ run # <<>>
                 /\ MatchInteger(text) = Len(run)
                 /\ ~InI32Range(run)) =>
                    /\ out[i].ret = "Some"
                    /\ out[i].token_kind = InvalidInteger(run)
                    /\ out[i].to = LastStep(i).left - Len(run)
                    /\ out[i].line = out[i].line_before

C10Witness ==
    /\ input = <<"2", "1", "4", "7", "4", "8", "3", "6", "4", "8", "a">>
    /\ Len(out) = 1
    /\ out[1].token_kind = InvalidInteger(SubSeq(input, 1, 10))
    /\ raw_data = <<"a">>

\* C11: for every s without a double quote, the text made of a double
\* quote, s and a double quote yields Literal(Str(s)), then end-of-input.
C11StrPayload ==
    (/\ Len(input) >= 2
     /\ input[1] = DQ /\ input[Len(input)] = DQ
     /\ \A k \in 2..(Len(input) - 1) : input[k] # DQ) =>
        PullsAre(<<Str(SubSeq(input, 2, Len(input) - 1))>>)

\* C12: on a text of n characters every pull returns a token or a failure,
\* having consumed at least one character, or end-of-input; at most n pulls
\* return a token or a failure, so pull n + 1 at the latest returns
\* end-of-input.
C12PullsBoundedByLength ==
    /\ \A i \in Calls :
          \/ out[i].ret = "Some" /\ out[i].to < out[i].from
          \/ out[i].ret = "None"
    /\ Cardinality({i \in Calls : out[i].ret = "Some"}) <= Len(input)
    /\ Len(out) > Len(input) => out[Len(out)].ret = "None"

\* the pulls so far that returned an EndLine token
EndLines == {i \in Calls : out[i].ret = "Some" /\ out[i].token_kind = EndLine}

\* C13: line_count starts at 1 and is one plus the number of EndLine tokens
\* returned so far: a pull that returns an EndLine token adds one to it, any
\* other pull leaves it unchanged.
C13LineCountIsEndLines ==
    /\ out = <<>> => line_count = 1
    /\ line_count = 1 + Cardinality(EndLines)
    /\ \A i \in Calls :
          out[i].line_after =
              IF i \in EndLines THEN out[i].line_before + 1
              ELSE out[i].line_before

C13Witness ==
    /\ input = <<"/", "/", CR, LF, "1">>
    /\ Len(out) = 3
    /\ EndLines = {1}
    /\ line_count = 2

\* C14: on a text of space characters only (the empty text too) the first
\* pull returns end-of-input.
C14SpacesOnly ==
    (\A k \in 1..Len(input) : input[k] = " ") => PullsAre(<<>>)

C14Witness ==
    /\ input = <<" ", " ", " ">>
    /\ Len(out) = 1
    /\ out[1].ret = "None"
    /\ raw_data = <<>>

TextXArrow5 == <<"x", " ", "<", "-", " ", "5">>

\* C15: the line of every token or failure is line_count as it is when the
\* pull returns; a token before the first EndLine token has line 1 (all
\* three tokens of `x <- 5`), and the k-th EndLine token has line k + 1.
C15TokenLine ==
    /\ \A i \in Calls :
          out[i].ret = "Some" =>
              /\ out[i].line = out[i].line_after
              /\ out[i].line = 1 + Cardinality({j \in EndLines : j <= i})
    /\ input = TextXArrow5 =>
          /\ PullsAre(<<Identifier(<<"x">>), Symbol(<<"<", "-">>), Integer(5)>>)
          /\ \A i \in Calls : out[i].line = 1

C15Witness ==
    /\ input = <<"a", LF, CR>>
    /\ Len(out) = 3
    /\ out[1].line = 1
    /\ out[2].token_kind = EndLine /\ out[2].line = 2
    /\ out[3].token_kind = EndLine /\ out[3].line = 3

\* C16: once a pull has returned end-of-input, every later pull returns
\* end-of-input and leaves the cursor and line_count as they were.
C16EndIsTerminal ==
    \A i \in Calls : \A j \in Calls :
        (i < j /\ out[i].ret = "None") =>
            /\ out[j].ret = "None"
            /\ out[j].from = out[i].to
            /\ out[j].to = out[j].from
            /\ out[j].line_after = out[i].line_after

C16Witness ==
    /\ input = <<"a", LF, " ">>
    /\ Len(out) = 4
    /\ out[3].ret = "None" /\ out[4].ret = "None"
    /\ raw_data = <<>>
    /\ line_count = 2

\* C17: every pull completes with a token, a failure or end-of-input; none
\* aborts in raw_data.next().unwrap() on an exhausted cursor.
C17NoPullAborts ==
    /\ ~aborted
    /\ \A i \in Calls : out[i].ret \in {"Some", "None"}

\* the pulls that returned a failure
Failures == {i \in Calls : out[i].ret = "Some" /\ ~out[i].token_kind.ok}

\* C18: after an UnexpectedToken failure the cursor is one character past
\* the offending character, after an InvalidInteger failure it is just past
\* the digit run the failure names; line_count is unchanged; and the next
\* pull returns what the first pull of a fresh lexer over the remaining text
\* returns, apart from the line offset.
C18FailureLeavesLexerUsable ==
    \A i \in Failures :
        /\ out[i].token_kind.tag = "UnexpectedToken" =>
              out[i].to = LastStep(i).left - 1
        /\ out[i].token_kind.tag = "InvalidInteger" =>
              out[i].to = LastStep(i).left - Len(out[i].token_kind.text)
        /\ out[i].line_after = out[i].line_before
        /\ (i + 1) \in Calls =>
              LET r == next(TextAt(out[i].to), 1)
              IN  /\ out[i + 1].ret = r.ret
                  /\ out[i + 1].token_kind = r.token_kind
                  /\ out[i + 1].line_after - out[i].line_after = r.line_count - 1

====
